---- MODULE Spec2Model ----
(***************************************************************************)
(* A model of the book service of src/main.py: one table "books" behind    *)
(* five HTTP handlers (setup, create, list, update, delete).               *)
(*                                                                         *)
(* Spec      runs the handlers one request at a time, each handler as one  *)
(*           action, and records the last request and its response.        *)
(* ConcSpec  runs requests in scoped sessions that interleave at the       *)
(*           handlers' await points and may be aborted.                    *)
(*                                                                         *)
(* Text that the handlers build (the detail messages) is modelled as the   *)
(* sequence of its Unicode code points.  A title or author that is None   *)
(* is the value None; an omitted query parameter, a record that was not    *)
(* found and a field a session does not hold are <<>>, a present one <<v>>.*)
(***************************************************************************)
EXTENDS Integers, Sequences, FiniteSets, TLC

VARIABLES tableExists, books, last, prev, gone, sess

vars == <<tableExists, books, last, prev, gone, sess>>

(***************************************************************************)
(* Bounds of the model and the inputs the requests are drawn from.         *)
(***************************************************************************)
MaxId == 3

ConcMaxId == 2

Ids == 1..MaxId

ConcIds == 1..ConcMaxId

Sessions == {"A", "B"}

Titles == {"Dune", "Emma"}

Authors == {"Herbert", "Austen"}

None == "None"

LimitSamples == {0, 1, 2, 100, 101}

OffsetSamples == {-1, 0, 1, 2}

Opt(S) == {<<>>} \cup {<<v>> : v \in S}

(***************************************************************************)
(* PaginationParams: the defaults and the ranges of limit and offset.      *)
(***************************************************************************)
DefaultLimit == 20

MinLimit == 1

MaxLimit == 100

DefaultOffset == 0

MinOffset == 0

HTTP_404 == 404

Limit(q) == IF q.limit = <<>> THEN DefaultLimit ELSE q.limit[1]

Offset(q) == IF q.offset = <<>> THEN DefaultOffset ELSE q.offset[1]

\* the upper bound of limit left out
ValidLimit_NoUpper(n) == MinLimit <= n

ValidLimit(n) == MinLimit <= n /\ n <= MaxLimit

ValidOffset(n) == n >= MinOffset

ValidPagination(q) == ValidLimit(Limit(q)) /\ ValidOffset(Offset(q))

(***************************************************************************)
(* BookSchema: title and author are required strings.                      *)
(***************************************************************************)
ValidBook(book) == book.title # None /\ book.author # None

(***************************************************************************)
(* The table: a sequence of rows [id, title, author] in storage order.     *)
(***************************************************************************)
IdsOf(tbl) == {tbl[i].id : i \in DOMAIN tbl}

MaxOf(S) == CHOOSE m \in S : \A x \in S : x <= m

\* the integer primary key the storage assigns to an inserted row
NewId(tbl) == IF tbl = <<>> THEN 1 ELSE MaxOf(IdsOf(tbl)) + 1

\* session.get(BookModel, book_id): <<row>>, or <<>> for None
GetRow(tbl, id) == SelectSeq(tbl, LAMBDA r : r.id = id)

\* BookModel(title=..., author=...) flushed as an INSERT
InsertRow(tbl, book) ==
    Append(tbl, [id |-> NewId(tbl), title |-> book.title, author |-> book.author])

\* a DELETE that removes the first row, whatever the id
RemoveRow_First(tbl, id) == IF tbl = <<>> THEN tbl ELSE Tail(tbl)

\* session.delete(book) flushed as DELETE ... WHERE id = book.id
RemoveRow(tbl, id) == SelectSeq(tbl, LAMBDA r : r.id # id)

\* the columns of obj that differ from the loaded row orig, flushed as
\* UPDATE ... SET <changed columns> WHERE id = orig.id
UpdateRow(tbl, orig, obj) ==
    [i \in DOMAIN tbl |->
        IF tbl[i].id = orig.id
        THEN [id     |-> tbl[i].id,
              title  |-> IF obj.title # orig.title THEN obj.title ELSE tbl[i].title,
              author |-> IF obj.author # orig.author THEN obj.author ELSE tbl[i].author]
        ELSE tbl[i]]

\* the author assigned from the body's title
ApplyUpdate_CopyPaste(book, body) ==
    [id     |-> book.id,
     title  |-> IF body.title # None THEN body.title ELSE book.title,
     author |-> IF body.author # None THEN body.title ELSE book.author]

\* the fields assigned without the test for None
ApplyUpdate_Unconditional(book, body) ==
    [id |-> book.id, title |-> body.title, author |-> body.author]

\* update_book's assignments to the fetched record
ApplyUpdate(book, body) ==
    [id     |-> book.id,
     title  |-> IF body.title # None THEN body.title ELSE book.title,
     author |-> IF body.author # None THEN body.author ELSE book.author]

Min(a, b) == IF a <= b THEN a ELSE b

\* the query without its .offset(...)
Page_IgnoresOffset(tbl, limit, offset) == SubSeq(tbl, 1, Min(limit, Len(tbl)))

\* select(BookModel).limit(limit).offset(offset)
Page(tbl, limit, offset) == SubSeq(tbl, offset + 1, Min(offset + limit, Len(tbl)))

(***************************************************************************)
(* The text of the responses, as code points.                              *)
(***************************************************************************)
RECURSIVE Digits(_)
Digits(n) == IF n < 10 THEN <<48 + n>> ELSE Digits(n \div 10) \o <<48 + (n % 10)>>

\* str(book_id) as the f-string formats it
FormatInt(n) == IF n < 0 THEN <<45>> \o Digits(-n) ELSE Digits(n)

DeletedPrefix == <<1050, 1085, 1080, 1075, 1072, 32, 1089, 32, 105, 100, 61>>

DeletedSuffix == <<32, 1091, 1076, 1072, 1083, 1077, 1085, 1072>>

\* the message as a plain string: "{book_id}" is not interpolated
DeletedDetail_NoId(book_id) ==
    DeletedPrefix \o <<123, 98, 111, 111, 107, 95, 105, 100, 125>> \o DeletedSuffix

DeletedDetail(book_id) == DeletedPrefix \o FormatInt(book_id) \o DeletedSuffix

NotFoundDetail ==
    <<1050, 1085, 1080, 1075, 1072, 32, 1085, 1077, 32,
      1085, 1072, 1081, 1076, 1077, 1085, 1072>>

(***************************************************************************)
(* The handlers, each as a function of the storage and the request.  The   *)
(* result holds the storage after the request, the response and the        *)
(* statements the request sent to the storage.                             *)
(***************************************************************************)
Result(ex, tbl, status, body, sql) ==
    [exists |-> ex, books |-> tbl, status |-> status, body |-> body, sql |-> sql]

\* a statement sent to the storage, with its parameters
Stmt(name, args) == [stmt |-> name, args |-> args]

ValidationError(ex, tbl) == Result(ex, tbl, 422, "validation error", <<>>)

StorageError(ex, tbl, sql) == Result(ex, tbl, 500, "Internal Server Error", sql)

NotFound(ex, tbl, sql) == Result(ex, tbl, HTTP_404, [detail |-> NotFoundDetail], sql)

\* create_all without the drop_all before it: an existing table is kept
setup_database_CreateOnly(ex, tbl) ==
    Result(TRUE, tbl, 200, "null", <<Stmt("CREATE", <<>>), Stmt("COMMIT", <<>>)>>)

setup_database(ex, tbl) ==
    Result(TRUE, <<>>, 200, "null",
           <<Stmt("DROP", <<>>), Stmt("CREATE", <<>>), Stmt("COMMIT", <<>>)>>)

\* add_book without its session.commit()
add_book_NoCommit(ex, tbl, book) ==
    IF ~ValidBook(book) THEN ValidationError(ex, tbl)
    ELSE Result(ex, tbl, 200, [title |-> book.title, author |-> book.author], <<>>)

add_book(ex, tbl, book) ==
    IF ~ValidBook(book) THEN ValidationError(ex, tbl)
    ELSE IF ~ex THEN StorageError(ex, tbl, <<Stmt("INSERT", <<>>), Stmt("ROLLBACK", <<>>)>>)
    ELSE Result(ex, InsertRow(tbl, book), 200,
                [title |-> book.title, author |-> book.author],
                <<Stmt("INSERT", <<>>), Stmt("COMMIT", <<>>)>>)

get_books(ex, tbl, q) ==
    IF ~ValidPagination(q) THEN ValidationError(ex, tbl)
    ELSE IF ~ex THEN StorageError(ex, tbl, <<Stmt("SELECT", <<Limit(q), Offset(q)>>)>>)
    ELSE Result(ex, tbl, 200, Page(tbl, Limit(q), Offset(q)),
                <<Stmt("SELECT", <<Limit(q), Offset(q)>>)>>)

\* delete_book without the 404 for a missing record
delete_book_Idempotent(ex, tbl, book_id) ==
    IF ~ex THEN StorageError(ex, tbl, <<Stmt("SELECT", <<book_id>>)>>)
    ELSE Result(ex, RemoveRow(tbl, book_id), 200,
                [detail |-> DeletedDetail(book_id)],
                <<Stmt("SELECT", <<book_id>>), Stmt("DELETE", <<book_id>>),
                  Stmt("COMMIT", <<>>)>>)

delete_book(ex, tbl, book_id) ==
    IF ~ex THEN StorageError(ex, tbl, <<Stmt("SELECT", <<book_id>>)>>)
    ELSE IF GetRow(tbl, book_id) = <<>>
    THEN NotFound(ex, tbl, <<Stmt("SELECT", <<book_id>>)>>)
    ELSE Result(ex, RemoveRow(tbl, book_id), 200,
                [detail |-> DeletedDetail(book_id)],
                <<Stmt("SELECT", <<book_id>>), Stmt("DELETE", <<book_id>>),
                  Stmt("COMMIT", <<>>)>>)

update_book(ex, tbl, book_id, body) ==
    IF ~ex THEN StorageError(ex, tbl, <<Stmt("SELECT", <<book_id>>)>>)
    ELSE IF GetRow(tbl, book_id) = <<>>
    THEN NotFound(ex, tbl, <<Stmt("SELECT", <<book_id>>)>>)
    ELSE LET orig == GetRow(tbl, book_id)[1]
             obj  == ApplyUpdate(orig, body)
             tbl2 == UpdateRow(tbl, orig, obj)
         IN  Result(ex, tbl2, 200, GetRow(tbl2, book_id)[1],
                    <<Stmt("SELECT", <<book_id>>)>>
                    \o (IF obj = orig THEN <<>> ELSE <<Stmt("UPDATE", <<book_id>>)>>)
                    \o <<Stmt("COMMIT", <<>>), Stmt("SELECT", <<book_id>>)>>)

(***************************************************************************)
(* The initial state: a fresh deployment, no table yet, nothing in flight. *)
(***************************************************************************)
Session(pc, op, id, body, orig, obj, out) ==
    [pc |-> pc, op |-> op, id |-> id, body |-> body, orig |-> orig, obj |-> obj, out |-> out]

\* a session that holds nothing, after a request that ended with `out`
Closed(out) == Session("idle", "none", 0, <<>>, <<>>, <<>>, out)

Idle == Closed("none")

Init ==
    /\ tableExists = FALSE
    /\ books = <<>>
    /\ last = [op |-> "none", req |-> None, status |-> 0, body |-> None, sql |-> <<>>]
    /\ prev = [exists |-> FALSE, books |-> <<>>]
    /\ gone = {}
    /\ sess = [s \in Sessions |-> Idle]

(***************************************************************************)
(* Spec: one request at a time, each handler one action.                   *)
(***************************************************************************)
\* the request op(req) answered with result r
Serve(op, req, r) ==
    /\ prev' = [exists |-> tableExists, books |-> books]
    /\ tableExists' = r.exists
    /\ books' = r.books
    /\ last' = [op |-> op, req |-> req, status |-> r.status, body |-> r.body, sql |-> r.sql]
    /\ gone' = IF op = "delete" /\ r.status = 200 THEN gone \cup {req.id}
               ELSE IF op = "create" /\ r.status = 200 THEN {}
               ELSE gone
    /\ UNCHANGED sess

Setup == Serve("setup", None, setup_database(tableExists, books))

Create ==
    \E t \in Titles \cup {None}, a \in Authors \cup {None} :
        /\ NewId(books) <= MaxId
        /\ Serve("create", [title |-> t, author |-> a],
                 add_book(tableExists, books, [title |-> t, author |-> a]))

List ==
    \E l \in Opt(LimitSamples), o \in Opt(OffsetSamples) :
        Serve("list", [limit |-> l, offset |-> o],
              get_books(tableExists, books, [limit |-> l, offset |-> o]))

Update ==
    \E id \in Ids, t \in Titles \cup {None}, a \in Authors \cup {None} :
        Serve("update", [id |-> id, title |-> t, author |-> a],
              update_book(tableExists, books, id, [title |-> t, author |-> a]))

Delete ==
    \E id \in Ids :
        Serve("delete", [id |-> id], delete_book(tableExists, books, id))

Next == Setup \/ Create \/ List \/ Update \/ Delete

Spec == Init /\ [][Next]_vars

(***************************************************************************)
(* ConcSpec: requests run in scoped sessions (get_session) and interleave  *)
(* at the handlers' awaits.  A session's pc names the await it is at:      *)
(*   "get"      session.get        (update_book, delete_book)              *)
(*   "execute"  session.execute    (get_books)                             *)
(*   "commit"   session.commit     (add_book, update_book, delete_book)    *)
(*   "refresh"  session.refresh    (update_book)                           *)
(* What add_book adds, what update_book assigns and what delete_book marks *)
(* stays in the session until its commit flushes it.  The requests here    *)
(* are the ones that passed validation.                                    *)
(***************************************************************************)
ConcBodies ==
    { [title |-> "Emma", author |-> None],
      [title |-> None, author |-> "Austen"],
      [title |-> None, author |-> None] }

\* what the commit of session ss flushes to the table
Flush(tbl, ss) ==
    IF ss.op = "create" THEN InsertRow(tbl, ss.body[1])
    ELSE IF ss.op = "update" THEN UpdateRow(tbl, ss.orig[1], ss.obj[1])
    ELSE IF ss.op = "delete" THEN RemoveRow(tbl, ss.orig[1].id)
    ELSE tbl

\* the UPDATE of a changed record matches no row: the flush raises
Stale(tbl, ss) ==
    /\ ss.op = "update"
    /\ ss.obj # ss.orig
    /\ ss.orig[1].id \notin IdsOf(tbl)

\* a session that commits what it holds when it is closed
ReleaseSession_Commits(tbl, ss) ==
    IF tableExists /\ ss.pc = "commit" /\ ~Stale(tbl, ss) THEN Flush(tbl, ss) ELSE tbl

\* leaving `async with new_async_session()`: the session is closed, what
\* it holds unflushed is discarded
ReleaseSession(tbl, ss) == tbl

Become(s, ss) == sess' = [sess EXCEPT ![s] = ss]

Ghosts == UNCHANGED <<last, prev, gone>>

CSetup ==
    /\ tableExists' = setup_database(tableExists, books).exists
    /\ books' = setup_database(tableExists, books).books
    /\ UNCHANGED sess
    /\ Ghosts

BeginCreate(s) ==
    /\ sess[s].pc = "idle"
    /\ \E t \in Titles, a \in Authors :
           Become(s, Session("commit", "create", 0, <<[title |-> t, author |-> a]>>,
                             <<>>, <<>>, "none"))
    /\ UNCHANGED <<tableExists, books>>
    /\ Ghosts

BeginUpdate(s) ==
    /\ sess[s].pc = "idle"
    /\ \E id \in ConcIds, body \in ConcBodies :
           Become(s, Session("get", "update", id, <<body>>, <<>>, <<>>, "none"))
    /\ UNCHANGED <<tableExists, books>>
    /\ Ghosts

BeginDelete(s) ==
    /\ sess[s].pc = "idle"
    /\ \E id \in ConcIds :
           Become(s, Session("get", "delete", id, <<>>, <<>>, <<>>, "none"))
    /\ UNCHANGED <<tableExists, books>>
    /\ Ghosts

BeginList(s) ==
    /\ sess[s].pc = "idle"
    /\ Become(s, Session("execute", "list", 0, <<[limit |-> <<>>, offset |-> <<>>]>>,
                         <<>>, <<>>, "none"))
    /\ UNCHANGED <<tableExists, books>>
    /\ Ghosts

\* await session.get(BookModel, book_id), then the handler's code up to
\* its commit: the 404, the assignments of update_book, session.delete
Get(s) ==
    LET ss  == sess[s]
        row == GetRow(books, ss.id)
    IN  /\ ss.pc = "get"
        /\ IF ~tableExists THEN Become(s, Closed("500"))
           ELSE IF row = <<>> THEN Become(s, Closed("404"))
           ELSE IF ss.op = "update"
           THEN Become(s, Session("commit", "update", ss.id, <<>>, row,
                                  <<ApplyUpdate(row[1], ss.body[1])>>, "none"))
           ELSE Become(s, Session("commit", "delete", ss.id, <<>>, row, <<>>, "none"))
        /\ books' = IF ~tableExists \/ row = <<>> THEN ReleaseSession(books, ss) ELSE books
        /\ UNCHANGED tableExists
        /\ Ghosts

\* await session.execute(query)
Execute(s) ==
    LET ss == sess[s]
        r  == get_books(tableExists, books, ss.body[1])
    IN  /\ ss.pc = "execute"
        /\ Become(s, Closed(IF r.status = 200 THEN "200" ELSE "500"))
        /\ books' = ReleaseSession(r.books, Closed("none"))
        /\ UNCHANGED tableExists
        /\ Ghosts

\* await session.commit(): the flush and the COMMIT
Commit(s) ==
    LET ss == sess[s]
    IN  /\ ss.pc = "commit"
        /\ ss.op = "create" => NewId(books) <= ConcMaxId
        /\ IF ~tableExists \/ Stale(books, ss)
           THEN /\ Become(s, Closed("500"))
                /\ books' = books
           ELSE /\ books' = Flush(books, ss)
                /\ IF ss.op = "update"
                   THEN Become(s, Session("refresh", "update", ss.id, <<>>, <<>>, <<>>, "none"))
                   ELSE Become(s, Closed("200"))
        /\ UNCHANGED tableExists
        /\ Ghosts

\* await session.refresh(book)
Refresh(s) ==
    LET ss == sess[s]
    IN  /\ ss.pc = "refresh"
        /\ Become(s, Closed(IF GetRow(books, ss.id) = <<>> THEN "500" ELSE "200"))
        /\ books' = ReleaseSession(books, Closed("none"))
        /\ UNCHANGED tableExists
        /\ Ghosts

\* the request is cancelled, or its await raises, where it waits
Abort(s) ==
    /\ sess[s].pc \in {"get", "execute", "commit", "refresh"}
    /\ Become(s, Closed(IF sess[s].pc = "commit" THEN "aborted before commit"
                         ELSE IF sess[s].pc = "refresh" THEN "aborted after commit"
                         ELSE "aborted"))
    /\ books' = ReleaseSession(books, sess[s])
    /\ UNCHANGED tableExists
    /\ Ghosts

ConcNext ==
    \/ CSetup
    \/ \E s \in Sessions :
          \/ BeginCreate(s)
          \/ BeginUpdate(s)
          \/ BeginDelete(s)
          \/ BeginList(s)
          \/ Get(s)
          \/ Execute(s)
          \/ Commit(s)
          \/ Refresh(s)
          \/ Abort(s)

ConcSpec == Init /\ [][ConcNext]_vars

(***************************************************************************)
(* The properties.  Under Spec, `last` is the last request with its        *)
(* response and `prev` is the storage that request found.                  *)
(***************************************************************************)
Served(op) == last.op = op

Stored(tbl, id) == id \in IdsOf(tbl)

\* C1, first half: a create that commits appends exactly one row, which
\* holds the submitted title and author, and leaves every existing row as
\* it was.
C1_AddsOneRow ==
    (Served("create") /\ last.status = 200) =>
        /\ Len(books) = Len(prev.books) + 1
        /\ \A i \in DOMAIN prev.books : books[i] = prev.books[i]
        /\ books[Len(books)].title = last.req.title
        /\ books[Len(books)].author = last.req.author

\* C1, second half: a list with offset 0 and a limit of at least the number
\* of stored rows, served right after a create that committed, returns a
\* record with the submitted title and author.
C1_ListedNext ==
    ( /\ Served("create") /\ last.status = 200
      /\ last'.op = "list" /\ last'.status = 200
      /\ Offset(last'.req) = 0
      /\ Limit(last'.req) >= Len(books) )
    => \E i \in DOMAIN last'.body :
           /\ last'.body[i].title = last.req.title
           /\ last'.body[i].author = last.req.author

\* C1: for every valid {title, author} and every table, after add_book
\* commits, get_books with offset 0 and a sufficient limit returns a record
\* with that title and author; the create adds exactly one row and changes
\* no existing row.
C1_CreateThenList == []C1_AddsOneRow /\ [][C1_ListedNext]_vars

\* a create has committed into a table that already held a row
C1_Witness ==
    /\ Served("create") /\ last.status = 200
    /\ Len(prev.books) >= 1
    /\ Len(books) = Len(prev.books) + 1

Unchanged == tableExists = prev.exists /\ books = prev.books

\* C2 as stated: for every book_id not present in storage, update_book and
\* delete_book answer 404 and leave the stored records as they were.
C2_AbsentIs404 ==
    ( /\ last.op \in {"update", "delete"}
      /\ ~Stored(prev.books, last.req.id) )
    => (last.status = 404 /\ Unchanged)

\* C2 amended: for every book_id not present in storage, update_book and
\* delete_book leave the stored records as they were; they answer 404 when
\* the books table exists, and 500 when it does not (no setup yet).
C2_AbsentIs404IfTable ==
    ( /\ last.op \in {"update", "delete"}
      /\ ~Stored(prev.books, last.req.id) )
    => /\ Unchanged
       /\ last.status = IF prev.exists THEN 404 ELSE 500

\* an update with a title in its body was answered 404 on a table that
\* holds other books
C2_Witness ==
    /\ Served("update") /\ last.status = 404
    /\ last.req.title # None
    /\ prev.books # <<>>
    /\ ~Stored(prev.books, last.req.id)

\* C3: for every existing book_id and every body, update_book sets title
\* (author) to the body's title (author) when it is supplied and keeps the
\* previous value when it is None; the id and all other records are
\* unchanged; the response is the record after the update.
C3_UpdateSuppliedFields ==
    (Served("update") /\ Stored(prev.books, last.req.id)) =>
        /\ last.status = 200
        /\ Len(books) = Len(prev.books)
        /\ \A i \in DOMAIN prev.books :
              IF prev.books[i].id = last.req.id
              THEN /\ books[i].id = last.req.id
                   /\ books[i].title = IF last.req.title # None THEN last.req.title
                                       ELSE prev.books[i].title
                   /\ books[i].author = IF last.req.author # None THEN last.req.author
                                        ELSE prev.books[i].author
                   /\ last.body = books[i]
              ELSE books[i] = prev.books[i]

\* a title-only update changed the title of one of several books
C3_Witness ==
    /\ Served("update") /\ last.status = 200
    /\ last.req.title # None /\ last.req.author = None
    /\ Len(books) >= 2
    /\ books # prev.books

ValidQueries ==
    {q \in [limit : Opt(LimitSamples), offset : Opt(OffsetSamples)] : ValidPagination(q)}

\* C4, first half: delete_book of an existing id succeeds and removes that
\* record and no other; no list returns it afterwards.
C4_RemovesThatRecord ==
    (Served("delete") /\ Stored(prev.books, last.req.id)) =>
        /\ last.status = 200
        /\ Len(books) = Len(prev.books) - 1
        /\ ~Stored(books, last.req.id)
        /\ \A i \in DOMAIN prev.books :
              prev.books[i].id # last.req.id =>
                  \E j \in DOMAIN books : books[j] = prev.books[i]
        /\ \A q \in ValidQueries :
              \A j \in DOMAIN get_books(tableExists, books, q).body :
                  get_books(tableExists, books, q).body[j].id # last.req.id

\* C4, second half: `gone` holds the ids deleted since the last create; a
\* delete of one of them answers 404.
C4_SecondDelete ==
    (last'.op = "delete" /\ last'.req.id \in gone) => last'.status = 404

\* C4: a successful delete_book removes exactly that record, and a second
\* delete_book of the same id with no create in between answers 404.
C4_DeleteOnce == []C4_RemovesThatRecord /\ [][C4_SecondDelete]_vars

\* a second delete of an id, with no create since the first, was answered
C4_Witness ==
    /\ Served("delete")
    /\ last.req.id \in gone
    /\ books = prev.books
    /\ books # <<>>

\* C5: for valid limit and offset, get_books returns the rows at positions
\* offset+1 .. offset+limit of the storage order: at most limit rows, none
\* when offset is at least the number of rows; limit=1,offset=0 and
\* limit=1,offset=1 give two different single records when there are two
\* rows; get_books changes no stored record.
C5_PageOfStorageOrder ==
    (Served("list") /\ last.status = 200) =>
        LET l == Limit(last.req)
            o == Offset(last.req)
            n == Len(prev.books)
            first  == get_books(tableExists, books, [limit |-> <<1>>, offset |-> <<0>>]).body
            second == get_books(tableExists, books, [limit |-> <<1>>, offset |-> <<1>>]).body
        IN  /\ Unchanged
            /\ Len(last.body) <= l
            /\ Len(last.body) = IF o >= n THEN 0 ELSE Min(l, n - o)
            /\ \A i \in DOMAIN last.body : last.body[i] = prev.books[o + i]
            /\ n >= 2 => /\ Len(first) = 1 /\ Len(second) = 1
                         /\ first[1] # second[1]
                         /\ first[1].id # second[1].id

\* a list with limit 2 and offset 1 returned the last two of three rows
C5_Witness ==
    /\ Served("list") /\ last.status = 200
    /\ last.req.limit = <<2>> /\ last.req.offset = <<1>>
    /\ Len(books) = 3
    /\ Len(last.body) = 2

\* C6: get_books accepts limit only in 1..100 and offset only from 0 up,
\* with limit 20 and offset 0 when they are omitted; a request outside
\* these ranges is answered 422 and sends no statement to the storage.
C6_PaginationValidated ==
    Served("list") =>
        LET l == IF last.req.limit = <<>> THEN 20 ELSE last.req.limit[1]
            o == IF last.req.offset = <<>> THEN 0 ELSE last.req.offset[1]
        IN  IF l < 1 \/ l > 100 \/ o < 0
            THEN last.status = 422 /\ last.sql = <<>> /\ Unchanged
            ELSE /\ last.status # 422
                 /\ last.sql = <<[stmt |-> "SELECT", args |-> <<l, o>>]>>
                 /\ prev.exists => last.status = 200

\* a list with limit 101 was refused
C6_Witness ==
    /\ Served("list") /\ last.status = 422
    /\ last.req.limit = <<101>>
    /\ last.req.offset = <<>>
    /\ books # <<>>

\* the number a sequence of decimal digits (code points 48..57) writes
RECURSIVE ParseInt(_)
ParseInt(d) ==
    IF d = <<>> THEN 0
    ELSE 10 * ParseInt(SubSeq(d, 1, Len(d) - 1)) + (d[Len(d)] - 48)

IsDecimal(d) == d # <<>> /\ \A i \in DOMAIN d : 48 <= d[i] /\ d[i] <= 57

\* "book id=" and " deleted"
BookIdEquals == <<98, 111, 111, 107, 32, 105, 100, 61>>

Deleted == <<32, 100, 101, 108, 101, 116, 101, 100>>

\* C7 as stated: a successful delete_book responds {detail: "book id=<id>
\* deleted"}, <id> being the book_id of the path.
C7_DetailInEnglish ==
    (Served("delete") /\ last.status = 200) =>
        last.body.detail = BookIdEquals \o FormatInt(last.req.id) \o Deleted

\* C7 amended: a successful delete_book responds with the detail
\* U+041A U+043D U+0438 U+0433 U+0430 " " U+0441 " id=<id> " U+0443 U+0434
\* U+0430 U+043B U+0435 U+043D U+0430 (the message in Russian), <id> being
\* the book_id of the path in decimal.
C7_DetailInRussian ==
    (Served("delete") /\ last.status = 200) =>
        LET d    == last.body.detail
            head == <<1050, 1085, 1080, 1075, 1072, 32, 1089, 32, 105, 100, 61>>
            tail == <<32, 1091, 1076, 1072, 1083, 1077, 1085, 1072>>
            mid  == SubSeq(d, Len(head) + 1, Len(d) - Len(tail))
        IN  /\ Len(d) > Len(head) + Len(tail)
            /\ SubSeq(d, 1, Len(head)) = head
            /\ SubSeq(d, Len(d) - Len(tail) + 1, Len(d)) = tail
            /\ IsDecimal(mid)
            /\ ParseInt(mid) = last.req.id
            /\ last.req.id = 1 => d = head \o <<49>> \o tail

\* the book with id 2 was deleted
C7_Witness ==
    /\ Served("delete") /\ last.status = 200
    /\ last.req.id = 2
    /\ Stored(prev.books, 2)

\* C8: every stored book has an id no other stored book has and a title
\* and an author that are not None; no request changes the id of a stored
\* book.
C8_UniqueIdsNoNulls ==
    /\ \A i, j \in DOMAIN books : books[i].id = books[j].id => i = j
    /\ \A i \in DOMAIN books : books[i].title # None /\ books[i].author # None
    /\ last.op \in {"create", "list", "update"} =>
          \A i \in DOMAIN prev.books :
              i \in DOMAIN books /\ books[i].id = prev.books[i].id
    /\ Served("delete") =>
          \A j \in DOMAIN books : \E i \in DOMAIN prev.books : books[j] = prev.books[i]

\* an update with no title in its body was applied to one of several books
C8_Witness ==
    /\ Served("update") /\ last.status = 200
    /\ last.req.title = None /\ last.req.author # None
    /\ Len(books) >= 2

\* C9, first half: after setup_database the table exists and is empty,
\* whatever was there before.
C9_EmptyTable ==
    Served("setup") => (last.status = 200 /\ tableExists /\ books = <<>>)

\* C9, second half: right after setup_database (`prev` is what it found), a
\* list returns the empty list and an update or delete of an id that was
\* stored before answers 404.
C9_NextRequest ==
    Served("setup") =>
        /\ (last'.op = "list" /\ ValidPagination(last'.req)) =>
               (last'.status = 200 /\ last'.body = <<>>)
        /\ (last'.op \in {"update", "delete"} /\ Stored(prev.books, last'.req.id)) =>
               last'.status = 404

\* C9: setup_database, from any prior state (no table, an empty table, a
\* table with records), leaves the table existing and empty: the next list
\* returns the empty list and every id stored before is gone.
C9_SetupResets == []C9_EmptyTable /\ [][C9_NextRequest]_vars

\* setup_database found a table with records
C9_Witness ==
    /\ Served("setup")
    /\ prev.exists
    /\ Len(prev.books) >= 2

\* the step is the commit of session s: it was at its commit and is past it
Committed(s) ==
    /\ sess[s].pc = "commit"
    /\ sess'[s].pc \in {"refresh", "idle"}
    /\ sess'[s].out \in {"none", "200"}
    /\ \A t \in Sessions \ {s} : sess'[t] = sess[t]

\* C10 (under ConcSpec): the stored records change only in the step that
\* commits a request (or in setup_database): what a create, update or
\* delete holds before its commit is not in the storage, and a request
\* that fails or is aborted before its commit leaves the storage as it is.
C10_OnlyCommitWrites ==
    [][ (books' # books \/ tableExists' # tableExists) =>
            \/ \E s \in Sessions : Committed(s)
            \/ (sess' = sess /\ tableExists' /\ books' = <<>>) ]_vars

\* a request was aborted at its commit, with records in the table
C10_Witness ==
    /\ \E s \in Sessions : sess[s].out = "aborted before commit"
    /\ \E s \in Sessions :
          /\ sess[s].pc = "commit" /\ sess[s].op = "update"
          /\ sess[s].obj # sess[s].orig
          /\ GetRow(books, sess[s].id) = sess[s].orig

====
